---- MODULE Spec2Model ----
(***************************************************************************)
(* EU flight monitor: the ingestion processor (api/flight_data.py), the    *)
(* flight service (services/flight_service.py) and the delay monitor       *)
(* (services/delay_monitor.py) over the relational schema of db/models.py. *)
(*                                                                         *)
(* Time is counted in whole minutes since an arbitrary epoch.  A nullable  *)
(* column or an optional argument is None (the empty tuple) or <<v>>.      *)
(* The committed database is the pair (flights, flight_status); reference  *)
(* data is (airports, airlines).  Row ids are the positions in `flights`.  *)
(***************************************************************************)
EXTENDS Integers, Sequences, FiniteSets, TLC

VARIABLES
    DELAY_THRESHOLD_MINUTES, \* config.DELAY_THRESHOLD_MINUTES, read once at start-up
    now,                     \* the wall clock, datetime.now(), in minutes
    airports,                \* table airports: set of [id, iata_code]
    airlines,                \* table airlines: set of [id, iata_code, name]
    flights,                 \* table flights: sequence of rows, id = position
    flight_status,           \* table flight_status: sequence of rows
    pfd,                     \* the running process_flight_data call, if any
    scan,                    \* the running check_all_airports call, if any
    sched,                   \* the monitoring loop of start_monitoring_schedule
    last,                    \* what the last completed operation returned
    report,                  \* the last report generate_daily_report wrote
    mock,                    \* what the calls of generate_mock_flight_data returned
    prev,                    \* the last completed process_flight_data(batch) call
    derived                  \* the Flight whose delay properties were read last

vars == <<DELAY_THRESHOLD_MINUTES, now, airports, airlines, flights,
          flight_status, pfd, scan, sched, last, report, mock, prev,
          derived>>

dbvars == <<flights, flight_status>>
refvars == <<airports, airlines>>

---------------------------------------------------------------------------
(* Bounds of the model. *)
MaxFlights == 2      \* rows of table flights
MaxTicks == 122      \* iterations of the monitoring loop
MaxReportFlights == 3   \* rows of table flights when the report command runs
MaxBatch == 2        \* records in a batch handed to process_flight_data
MaxClock == 1        \* minutes the clock advances between commands
MaxMockCalls == 2    \* calls of generate_mock_flight_data

(* Program constants. *)
HardCodedThreshold == 120   \* flight_data.py: delay_minutes >= 120
DefaultThreshold == 120     \* config.py default of DELAY_THRESHOLD_MINUTES
ClaimWindowDays == 90       \* timedelta(days=90)
MockCount == 10             \* range(10) in generate_mock_flight_data

MinutesPerDay == 24 * 60
None == <<>>
Some(v) == <<v>>
IsSome(o) == o # None
Val(o) == o[1]

Range(s) == {s[i] : i \in DOMAIN s}

(* Start of the calendar day holding instant t, and the clock at Init:     *)
(* day 200, 10:00.                                                         *)
DateOf(t) == t \div MinutesPerDay
now0 == 200 * MinutesPerDay + 10 * 60

---------------------------------------------------------------------------
(* Reference data and the input domains of the model.                      *)
FRA == [id |-> 1, iata_code |-> "FRA"]
LHR == [id |-> 2, iata_code |-> "LHR"]
Lufthansa == [id |-> 1, iata_code |-> "LH", name |-> "Lufthansa"]
Eurowings == [id |-> 2, iata_code |-> "EW", name |-> "Eurowings"]

Thresholds == {DefaultThreshold, DefaultThreshold + 40}
FlightNumbers == {"LH1000"}
Statuses == {"scheduled", "landed"}
Delays == {150}
(* Scheduled departures: just outside the 90-day claim window, and on the  *)
(* previous calendar day.                                                  *)
SchedTimes == {now0 - ClaimWindowDays * MinutesPerDay - 1, now0 - MinutesPerDay}
FlightMinutes == 120

(* The normalized flight records a caller can hand to process_flight_data. *)
RecordOf(fn, al, dep, arr, sd, ad, aa, st, dl) ==
    [flight_iata |-> fn, airline_iata |-> al,
     departure_iata |-> dep, arrival_iata |-> arr,
     departure_scheduled |-> sd, arrival_scheduled |-> sd + FlightMinutes,
     departure_actual |-> ad, arrival_actual |-> aa,
     status |-> st, delay |-> dl]

(* Records of landed flights that differ in key and delay (with or without *)
(* the key "delay") and carry no actual times.                             *)
GoodRecords ==
    {RecordOf(fn, "LH", "FRA", "LHR", sd, None, None, st, dl) :
        fn \in FlightNumbers, sd \in SchedTimes, st \in {"landed"},
        dl \in {None} \cup {Some(d) : d \in Delays}}

(* Records naming an airline or an airport that is not in the database.    *)
BadRefRecords ==
    {RecordOf("LH1000", ref[1], ref[2], ref[3], now0 - MinutesPerDay, None, None,
              "landed", Some(150)) :
        ref \in {<<"XX", "FRA", "LHR">>, <<"LH", "ZZZ", "LHR">>, <<"LH", "FRA", "ZZZ">>}}

Records == GoodRecords \cup BadRefRecords

(* Records that differ in their actual times: none, or a departure with    *)
(* one of two arrivals.                                                    *)
ActualsRecords ==
    UNION {{RecordOf(fn, "LH", "FRA", "LHR", sd, None, None, "in-air", None),
            RecordOf(fn, "LH", "FRA", "LHR", sd, Some(sd + 150), None, "in-air", None),
            RecordOf(fn, "LH", "FRA", "LHR", sd, None,
                     Some(sd + FlightMinutes + 10), "landed", None),
            RecordOf(fn, "LH", "FRA", "LHR", sd, Some(sd + 150),
                     Some(sd + FlightMinutes + 150), "landed", None)} :
           fn \in FlightNumbers, sd \in SchedTimes}

---------------------------------------------------------------------------
(* Queries of the ORM session against the committed tables.                *)
AirlineByIata(code) == {a \in airlines : a.iata_code = code}
AirportByIata(code) == {a \in airports : a.iata_code = code}

(* db.query(Flight).filter_by(flight_number, scheduled_departure): the ids *)
(* of the matching rows.  .first() takes one of them; no ORDER BY is given *)
(* so which one is the database's choice.                                  *)
FlightsByKey(F, fn, sd) ==
    {i \in DOMAIN F : F[i].flight_number = fn /\ F[i].scheduled_departure = sd}

(* db.query(FlightStatus).filter_by(flight_id=...): positions in the table *)
StatusRowsOf(S, fid) == {j \in DOMAIN S : S[j].flight_id = fid}

(* flight_status.is_delayed as process_flight_data computes it             *)
IngestIsDelayed(delay_minutes) == delay_minutes >= HardCodedThreshold

(* flight_info.get("delay", 0)                                             *)
RecordDelay(fi) == IF IsSome(fi.delay) THEN Val(fi.delay) ELSE 0

(* The references of a record resolve: lines 143-154 do not `continue`.    *)
RefsResolve(fi) ==
    /\ AirlineByIata(fi.airline_iata) # {}
    /\ AirportByIata(fi.departure_iata) # {}
    /\ AirportByIata(fi.arrival_iata) # {}

(* Flight(...) of lines 164-172.                                           *)
NewFlight(fi) ==
    [flight_number |-> fi.flight_iata,
     airline_id |-> (CHOOSE a \in AirlineByIata(fi.airline_iata) : TRUE).id,
     departure_airport_id |-> (CHOOSE a \in AirportByIata(fi.departure_iata) : TRUE).id,
     arrival_airport_id |-> (CHOOSE a \in AirportByIata(fi.arrival_iata) : TRUE).id,
     scheduled_departure |-> fi.departure_scheduled,
     scheduled_arrival |-> fi.arrival_scheduled,
     actual_departure |-> None,
     actual_arrival |-> None,
     status |-> fi.status]

(* A variant that assigns the record's actual times unconditionally.       *)
ApplyRecordToFlightOverwrite(f, fi) ==
    [f EXCEPT !.actual_departure = fi.departure_actual,
              !.actual_arrival = fi.arrival_actual,
              !.status = fi.status]

(* Lines 176-183: the actual times are written only when the record has    *)
(* them, the status always.                                                *)
ApplyRecordToFlight(f, fi) ==
    [f EXCEPT !.actual_departure = IF IsSome(fi.departure_actual)
                                   THEN fi.departure_actual ELSE @,
              !.actual_arrival = IF IsSome(fi.arrival_actual)
                                 THEN fi.arrival_actual ELSE @,
              !.status = fi.status]

(* A variant that inserts a FlightStatus row without looking for one.      *)
ApplyRecordToStatusInsert(S, fid, fi, t) ==
    Append(S, [flight_id |-> fid,
               delay_minutes |-> RecordDelay(fi),
               is_delayed |-> IngestIsDelayed(RecordDelay(fi)),
               last_updated |-> Some(t)])

(* Lines 185-195: the FlightStatus row of flight fid after the record.     *)
ApplyRecordToStatus(S, fid, fi, t) ==
    LET rows == StatusRowsOf(S, fid)
        upd(r) == [r EXCEPT !.delay_minutes = RecordDelay(fi),
                            !.is_delayed = IngestIsDelayed(RecordDelay(fi)),
                            !.last_updated = Some(t)]
    IN IF rows = {}
       THEN Append(S, [flight_id |-> fid,
                       delay_minutes |-> RecordDelay(fi),
                       is_delayed |-> IngestIsDelayed(RecordDelay(fi)),
                       last_updated |-> Some(t)])
       ELSE LET j == CHOOSE j \in rows : \A k \in rows : j <= k
            IN [S EXCEPT ![j] = upd(S[j])]

(* The session's pending state after lines 156-195 of one loop iteration,  *)
(* before db.commit().  found is the id .first() returned, 0 for no row.   *)
StageRecord(F, S, fi, found, t) ==
    LET F1 == IF found = 0 THEN Append(F, NewFlight(fi)) ELSE F
        fid == IF found = 0 THEN Len(F) + 1 ELSE found
    IN [flights |-> [F1 EXCEPT ![fid] = ApplyRecordToFlight(F1[fid], fi)],
        flight_status |-> ApplyRecordToStatus(S, fid, fi, t)]

(* db.commit() makes the pending state the committed one; db.rollback()    *)
(* discards it.                                                            *)
Commit(committed, pending) == pending
(* A variant in which the handler commits what is pending.                 *)
RollbackKeepsPending(committed, pending) == pending
Rollback(committed, pending) == committed

---------------------------------------------------------------------------
(* What an operation left behind for its caller.                           *)
Returned(op, ids) == [op |-> op, raised |-> FALSE, ids |-> ids]
Raised(op) == [op |-> op, raised |-> TRUE, ids |-> {}]
Calling(op) == [op |-> "in " \o op, raised |-> FALSE, ids |-> {}]

(* No delay property has been read yet.                                    *)
NoDerived == [scheduled_departure |-> <<>>, actual_departure |-> <<>>,
              scheduled_arrival |-> <<>>, actual_arrival |-> <<>>,
              departure_delay_minutes |-> <<>>, arrival_delay_minutes |-> <<>>]

(* No batch call has completed yet.                                        *)
NoPrev == [batch |-> <<>>, flights |-> <<>>, flight_status |-> <<>>,
           repeat |-> FALSE, twice |-> FALSE, once |-> <<>>]

PfdIdle == [pc |-> "idle", src |-> "none", k |-> 0, batch |-> <<>>, rec |-> "none"]
ScanIdle == [pc |-> "idle", todo |-> <<>>, visited |-> <<>>]
SchedOff == [pc |-> "off", ticks |-> 0, next_scan |-> 0, next_report |-> 0,
             next_claims |-> 0, failures |-> 0, jobs_run |-> 0]

(* No call is in progress: the command line runs one command at a time.    *)
Quiescent == pfd.pc = "idle" /\ scan.pc = "idle" /\ sched.pc = "off"

---------------------------------------------------------------------------
(* process_flight_data(flight_data), flight_data.py lines 124-203.         *)

(* The call starts: line 133 opens a session.  The command line (simulate) *)
(* hands it a batch whose records the model draws one at a time.           *)
ProcessFlightDataCall ==
    /\ Quiescent
    /\ pfd' = [PfdIdle EXCEPT !.pc = "running", !.src = "cli"]
    /\ last' = Calling("process_flight_data")
    /\ UNCHANGED <<mock, prev, derived, DELAY_THRESHOLD_MINUTES, now, refvars, dbvars, scan, sched, report>>

(* A variant whose lookup never finds the flight.                          *)
FirstFlightNone(F, fi) == {0}

(* What .first() of lines 157-160 returns: a matching row's id, or 0.      *)
FirstFlight(F, fi) ==
    IF FlightsByKey(F, fi.flight_iata, fi.departure_scheduled) = {}
    THEN {0}
    ELSE FlightsByKey(F, fi.flight_iata, fi.departure_scheduled)

(* The position in the batch after one more record.  A batch handed over   *)
(* by the command line is drawn record by record and has no fixed length,  *)
(* so only a fetched batch is indexed.                                     *)
NextIndex(p) == IF p.src = "cli" THEN p.k ELSE p.k + 1

(* A variant that leaves the loop at the first unresolved reference.       *)
SkipRecordReturns(p) == [PfdIdle EXCEPT !.rec = "skipped"]

(* Lines 144-146 and 152-154: `continue` goes on with the next record.     *)
SkipRecord(p) == [p EXCEPT !.k = NextIndex(p), !.rec = "skipped"]

(* A variant whose handler re-raises after the rollback.                   *)
PfdOnErrorReraises == Raised("process_flight_data")

(* Lines 199-201: the handler logs and rolls back; nothing is re-raised.   *)
PfdOnError == Returned("process_flight_data", {})

(* A variant that adds the airline a record names when it is unknown.      *)
AirlinesAfterRecordCreating(fi) ==
    IF AirlineByIata(fi.airline_iata) = {}
    THEN airlines \cup {[id |-> 90, iata_code |-> fi.airline_iata,
                         name |-> fi.airline_iata]}
    ELSE airlines

(* Lines 143-146: the airline is looked up and never added.                *)
AirlinesAfterRecord(fi) == airlines

(* One iteration of the loop of lines 135-197 on record fi.  fault says    *)
(* that a statement of the iteration raises (a malformed record, a failing *)
(* flush or commit): lines 199-203 roll the session back and the call      *)
(* returns.                                                                *)
LoopBody(fi, fault) ==
    /\ pfd.pc = "running"
    /\ \E found \in FirstFlight(flights, fi) :
         LET committed == [flights |-> flights, flight_status |-> flight_status]
             pending == IF RefsResolve(fi)
                        THEN StageRecord(flights, flight_status, fi, found, now)
                        ELSE committed
         IN IF fault
            THEN /\ pfd' = [PfdIdle EXCEPT !.rec = "failed"]
                 /\ last' = PfdOnError
                 /\ flights' = Rollback(committed, pending).flights
                 /\ flight_status' = Rollback(committed, pending).flight_status
            ELSE IF ~RefsResolve(fi)
            THEN /\ pfd' = SkipRecord(pfd)
                 /\ UNCHANGED last
                 /\ UNCHANGED dbvars
            ELSE /\ pfd.src = "cli" => Len(pending.flights) <= MaxFlights
                 /\ pfd' = [pfd EXCEPT !.k = NextIndex(pfd), !.rec = "committed"]
                 /\ UNCHANGED last
                 /\ flights' = Commit(committed, pending).flights
                 /\ flight_status' = Commit(committed, pending).flight_status
    /\ airlines' = AirlinesAfterRecord(fi)
    /\ UNCHANGED <<mock, prev, derived, DELAY_THRESHOLD_MINUTES, now, airports, scan, sched,
                   report>>

(* The next record of a batch handed over by the command line.             *)
ProcessRecord ==
    /\ pfd.src = "cli"
    /\ \E fi \in Records, fault \in BOOLEAN : LoopBody(fi, fault)

(* The batch is exhausted: the loop ends, line 203 closes the session.     *)
ProcessFlightDataReturn ==
    /\ pfd.pc = "running"
    /\ pfd.src = "cli"
    /\ pfd' = PfdIdle
    /\ last' = Returned("process_flight_data", {})
    /\ UNCHANGED <<mock, prev, derived, DELAY_THRESHOLD_MINUTES, now, refvars, dbvars, scan, sched, report>>

(* process_flight_data(batch) with the whole list given: the batches of up *)
(* to MaxBatch records, out of two records for one key (in the air with a  *)
(* delay, then landed without the key "delay") and one for another key.    *)
BatchRecords ==
    {RecordOf("LH1000", "LH", "FRA", "LHR", now0 - MinutesPerDay, None, None,
              "in-air", Some(150)),
     RecordOf("LH1000", "LH", "FRA", "LHR", now0 - MinutesPerDay, None, None,
              "landed", None),
     RecordOf("LH1000", "LH", "FRA", "LHR", now0 - MinutesPerDay - 1, None,
              Some(now0 - 60), "landed", None)}
Batches == UNION {[1..n -> BatchRecords] : n \in 1..MaxBatch}

(* The call begins; prev.repeat says that it is given the batch of the     *)
(* call completed last, on the database that call left.                    *)
ProcessBatchCall ==
    /\ Quiescent
    /\ \E batch \in Batches :
         /\ pfd' = [PfdIdle EXCEPT !.pc = "running", !.src = "batch", !.batch = batch]
         /\ prev' = [prev EXCEPT !.repeat = /\ batch = prev.batch
                                            /\ flights = prev.flights
                                            /\ flight_status = prev.flight_status]
    /\ last' = Calling("process_flight_data")
    /\ UNCHANGED <<mock, derived, DELAY_THRESHOLD_MINUTES, now, refvars, dbvars, scan, sched, report>>

(* The next record of the batch, lines 135-197.                            *)
BatchProcessRecord ==
    /\ pfd.src = "batch"
    /\ pfd.k < Len(pfd.batch)
    /\ \E fault \in BOOLEAN : LoopBody(pfd.batch[pfd.k + 1], fault)

(* The loop ran through the batch; the call returns.  prev keeps the batch *)
(* and the database it left, and when the call was a repeat, the database  *)
(* the first of the two calls had left.                                    *)
BatchReturn ==
    /\ pfd.pc = "running"
    /\ pfd.src = "batch"
    /\ pfd.k = Len(pfd.batch)
    /\ pfd' = PfdIdle
    /\ last' = Returned("process_flight_data", {})
    /\ prev' = [batch |-> pfd.batch, flights |-> flights,
                flight_status |-> flight_status, repeat |-> FALSE,
                twice |-> prev.repeat,
                once |-> IF prev.repeat
                         THEN [flights |-> prev.flights,
                               flight_status |-> prev.flight_status]
                         ELSE <<>>]
    /\ UNCHANGED <<mock, derived, DELAY_THRESHOLD_MINUTES, now, refvars, dbvars, scan, sched, report>>

(* Time passes between two commands.                                       *)
ClockTick ==
    /\ Quiescent
    /\ now < now0 + MaxClock
    /\ now' = now + 1
    /\ UNCHANGED <<mock, prev, derived, DELAY_THRESHOLD_MINUTES, refvars, dbvars, pfd, scan, sched,
                   last, report>>

---------------------------------------------------------------------------
(* FlightService, flight_service.py.                                       *)

(* Flight.departure_delay_minutes and Flight.arrival_delay_minutes,        *)
(* models.py lines 72-86, on times counted in seconds.                     *)

(* int(x / 60): the quotient cut off towards zero.                         *)
IntOfQuotient(n, d) == IF n >= 0 THEN n \div d ELSE 0 - ((0 - n) \div d)

(* A variant without max(0, ...).                                          *)
DelayMinutesOfSigned(actual, scheduled) ==
    IF ~IsSome(actual) \/ ~IsSome(scheduled)
    THEN None
    ELSE Some(IntOfQuotient(Val(actual) - Val(scheduled), 60))

(* Lines 74-78 and 82-86: None without an actual or a scheduled time, else *)
(* max(0, int(delay)).                                                     *)
DelayMinutesOf(actual, scheduled) ==
    IF ~IsSome(actual) \/ ~IsSome(scheduled)
    THEN None
    ELSE LET delay == IntOfQuotient(Val(actual) - Val(scheduled), 60)
         IN Some(IF delay > 0 THEN delay ELSE 0)

(* The scheduled departure of the Flight that is read, in seconds, and the *)
(* distances of its actual times from the scheduled ones.                  *)
DerivedScheduled == now0 * 60
DerivedOffsets == {-7201, -121, -120, -61, -60, -59, -1, 0, 1, 59, 60, 61, 119, 120,
                   121, 7259}
DerivedTimes(base) == {None} \cup {Some(base + d) : d \in DerivedOffsets}

(* Both properties of a Flight object are read.                            *)
ReadDelayProperties ==
    /\ Quiescent
    /\ \E sd \in {None, Some(DerivedScheduled)},
          ad \in DerivedTimes(DerivedScheduled),
          aa \in DerivedTimes(DerivedScheduled + FlightMinutes * 60) :
         derived' = [scheduled_departure |-> sd, actual_departure |-> ad,
                     scheduled_arrival |-> Some(DerivedScheduled + FlightMinutes * 60),
                     actual_arrival |-> aa,
                     departure_delay_minutes |-> DelayMinutesOf(ad, sd),
                     arrival_delay_minutes |->
                        DelayMinutesOf(aa, Some(DerivedScheduled + FlightMinutes * 60))]
    /\ last' = Returned("delay_minutes", {})
    /\ UNCHANGED <<mock, prev, DELAY_THRESHOLD_MINUTES, now, refvars, dbvars, pfd, scan, sched,
                   report>>

(* The foreign keys of table flights (models.py lines 52-54).              *)
ForeignKeysHold(f) ==
    /\ \E a \in airlines : a.id = f.airline_id
    /\ \E a \in airports : a.id = f.departure_airport_id
    /\ \E a \in airports : a.id = f.arrival_airport_id

(* FlightStatus(flight_id, is_delayed=False, delay_minutes=0), lines       *)
(* 116-120; last_updated takes the column default.                         *)
InitialStatus(fid, t) ==
    [flight_id |-> fid, delay_minutes |-> 0, is_delayed |-> FALSE,
     last_updated |-> Some(t)]

(* create_flight, lines 83-129.  fault: 0 none, 1 the first commit raises, *)
(* 2 the second commit raises.  Either way line 127 rolls back what is     *)
(* pending and line 129 re-raises.                                         *)
CreateFlight(fn, airline_id, dep_id, arr_id, sd, sa, st, fault) ==
    LET f == [flight_number |-> fn, airline_id |-> airline_id,
              departure_airport_id |-> dep_id, arrival_airport_id |-> arr_id,
              scheduled_departure |-> sd, scheduled_arrival |-> sa,
              actual_departure |-> None, actual_arrival |-> None, status |-> st]
        fid == Len(flights) + 1
    IN /\ Quiescent
       /\ Len(flights) < MaxFlights
       /\ IF fault = 1 \/ ~ForeignKeysHold(f)
          THEN /\ UNCHANGED dbvars
               /\ last' = Raised("create_flight")
          ELSE IF fault = 2
          THEN /\ flights' = Append(flights, f)
               /\ UNCHANGED flight_status
               /\ last' = Raised("create_flight")
          ELSE /\ flights' = Append(flights, f)
               /\ flight_status' = Append(flight_status, InitialStatus(fid, now))
               /\ last' = Returned("create_flight", {})
       /\ pfd' = PfdIdle
       /\ UNCHANGED <<mock, prev, derived, DELAY_THRESHOLD_MINUTES, now, refvars, scan, sched, report>>

(* flight_status.is_delayed as update_flight_status computes it, line 170. *)
UpdateIsDelayed(delay_minutes) == delay_minutes >= DELAY_THRESHOLD_MINUTES

(* The Flight row after lines 152-160: a truthy argument overwrites.       *)
UpdateFlightRow(f, actual_departure, actual_arrival, st) ==
    [f EXCEPT !.actual_departure = IF IsSome(actual_departure) THEN actual_departure ELSE @,
              !.actual_arrival = IF IsSome(actual_arrival) THEN actual_arrival ELSE @,
              !.status = IF IsSome(st) THEN Val(st) ELSE @]

(* The FlightStatus table after lines 163-175.  A row created here without *)
(* a delay keeps the column defaults (models.py lines 94-95).              *)
UpdateStatusRows(S, fid, delay_minutes, t) ==
    LET rows == StatusRowsOf(S, fid)
        S1 == IF rows = {}
              THEN Append(S, [flight_id |-> fid, delay_minutes |-> 0,
                              is_delayed |-> FALSE, last_updated |-> Some(t)])
              ELSE S
        j == CHOOSE j \in StatusRowsOf(S1, fid) : \A k \in StatusRowsOf(S1, fid) : j <= k
    IN [S1 EXCEPT ![j] =
          [@ EXCEPT !.delay_minutes = IF IsSome(delay_minutes) THEN Val(delay_minutes) ELSE @,
                    !.is_delayed = IF IsSome(delay_minutes)
                                   THEN UpdateIsDelayed(Val(delay_minutes)) ELSE @,
                    !.last_updated = Some(t)]]

(* update_flight_status, lines 131-184.  fault: the commit of line 178     *)
(* raises, line 182 rolls back, line 184 re-raises.                        *)
UpdateFlightStatus(fid, actual_departure, actual_arrival, st, delay_minutes, fault) ==
    /\ Quiescent
    /\ IF fid \notin DOMAIN flights
       THEN /\ UNCHANGED dbvars
            /\ last' = Returned("update_flight_status", {})
       ELSE LET committed == [flights |-> flights, flight_status |-> flight_status]
                pending ==
                  [flights |-> [flights EXCEPT ![fid] =
                                  UpdateFlightRow(@, actual_departure, actual_arrival, st)],
                   flight_status |-> UpdateStatusRows(flight_status, fid, delay_minutes, now)]
            IN IF fault
               THEN /\ flights' = Rollback(committed, pending).flights
                    /\ flight_status' = Rollback(committed, pending).flight_status
                    /\ last' = Raised("update_flight_status")
               ELSE /\ flights' = Commit(committed, pending).flights
                    /\ flight_status' = Commit(committed, pending).flight_status
                    /\ last' = Returned("update_flight_status", {})
    /\ pfd' = PfdIdle
    /\ UNCHANGED <<mock, prev, derived, DELAY_THRESHOLD_MINUTES, now, refvars, scan, sched, report>>

(* A variant that looks at the departure airport only.                     *)
GetFlightsByAirportDeparting(F, airport_code) ==
    IF AirportByIata(airport_code) = {}
    THEN {}
    ELSE LET airport == CHOOSE a \in AirportByIata(airport_code) : TRUE
         IN {i \in DOMAIN F : F[i].departure_airport_id = airport.id}

(* get_flights_by_airport, lines 30-52: [] for an unknown code (iata_code   *)
(* is unique, models.py line 14), else the flights that leave from or      *)
(* arrive at the airport.                                                  *)
GetFlightsByAirport(F, airport_code) ==
    IF AirportByIata(airport_code) = {}
    THEN {}
    ELSE LET airport == CHOOSE a \in AirportByIata(airport_code) : TRUE
         IN {i \in DOMAIN F : \/ F[i].departure_airport_id = airport.id
                              \/ F[i].arrival_airport_id = airport.id}

(* A variant that asks for exactly one row and raises without one.         *)
GetFlightByNumberOne(F, flight_number) ==
    LET found == {i \in DOMAIN F : F[i].flight_number = flight_number}
    IN IF found = {} THEN {Raised("get_flight_by_number")}
       ELSE {Returned("get_flight_by_number", {i}) : i \in found}

(* get_flight_by_number, lines 54-64: .first() without an order returns    *)
(* any of the matching rows, or None (no id) when there is none.           *)
GetFlightByNumber(F, flight_number) ==
    LET found == {i \in DOMAIN F : F[i].flight_number = flight_number}
    IN IF found = {} THEN {Returned("get_flight_by_number", {})}
       ELSE {Returned("get_flight_by_number", {i}) : i \in found}

(* A variant with the comparison of line 79 turned around.                 *)
GetDelayedFlightsAtMost(F, S, min_delay_minutes) ==
    {i \in DOMAIN F : \E j \in DOMAIN S :
        /\ S[j].flight_id = i
        /\ S[j].is_delayed = TRUE
        /\ S[j].delay_minutes <= min_delay_minutes}

(* get_delayed_flights, lines 66-81: Flight JOIN FlightStatus, filtered.   *)
GetDelayedFlights(F, S, min_delay_minutes) ==
    {i \in DOMAIN F : \E j \in DOMAIN S :
        /\ S[j].flight_id = i
        /\ S[j].is_delayed = TRUE
        /\ S[j].delay_minutes >= min_delay_minutes}

(* get_flights_for_claims, lines 186-201.                                  *)
GetFlightsForClaims(F, S, t) ==
    {i \in DOMAIN F : \E j \in DOMAIN S :
        /\ S[j].flight_id = i
        /\ S[j].is_delayed = TRUE
        /\ S[j].delay_minutes >= DELAY_THRESHOLD_MINUTES
        /\ F[i].scheduled_departure >= t - ClaimWindowDays * MinutesPerDay}

---------------------------------------------------------------------------
(* The data source adapter in simulation mode, flight_data.py lines 21-122 *)

MockAirlines == <<"LH", "EW", "FR", "AF", "BA">>
MockDestinations == <<"LHR", "CDG", "AMS", "MAD", "FCO">>
MockLongDelay == 150
MockShortDelay == 10

(* A variant that draws the airline from a position that moves on with     *)
(* every call.                                                             *)
MockAirlineDrifting(i) == MockAirlines[((i + Len(mock)) % Len(MockAirlines)) + 1]

(* Line 72: the airline of record i.                                       *)
MockAirline(i) == MockAirlines[(i % Len(MockAirlines)) + 1]

(* A variant in which a flight has landed as soon as it is due.            *)
MockStatusLandsAtOnce(t, scheduled_departure, scheduled_arrival, delay_minutes) ==
    IF t < scheduled_departure THEN "scheduled" ELSE "landed"

(* A variant without the boarding window.                                  *)
MockStatusNoBoarding(t, scheduled_departure, scheduled_arrival, delay_minutes) ==
    IF t < scheduled_departure THEN "scheduled"
    ELSE IF t < scheduled_arrival + delay_minutes THEN "in-air"
    ELSE "landed"

(* Lines 87-94: the status of a record at t.                               *)
MockStatus(t, scheduled_departure, scheduled_arrival, delay_minutes) ==
    IF t < scheduled_departure THEN "scheduled"
    ELSE IF t < scheduled_departure + delay_minutes THEN "boarding"
    ELSE IF t < scheduled_arrival + delay_minutes THEN "in-air"
    ELSE "landed"

(* Record i (0-based) of generate_mock_flight_data(airport_code) at t.     *)
MockRecord(airport_code, t, i) ==
    LET airline == MockAirline(i)
        destination == MockDestinations[(i % Len(MockDestinations)) + 1]
        scheduled_departure == t + 60 * i + 30 * i
        scheduled_arrival == scheduled_departure + FlightMinutes
        is_delayed == i % 3 = 0
        delay_minutes == IF is_delayed THEN MockLongDelay ELSE MockShortDelay
        actual_departure == IF scheduled_departure < t
                            THEN Some(scheduled_departure + delay_minutes) ELSE None
        actual_arrival == IF scheduled_arrival < t
                          THEN Some(scheduled_arrival + delay_minutes) ELSE None
        status == MockStatus(t, scheduled_departure, scheduled_arrival, delay_minutes)
    IN [flight_iata |-> airline \o ToString(1000 + i), airline_iata |-> airline,
        departure_iata |-> airport_code, arrival_iata |-> destination,
        departure_scheduled |-> scheduled_departure,
        arrival_scheduled |-> scheduled_arrival,
        departure_actual |-> actual_departure, arrival_actual |-> actual_arrival,
        status |-> status,
        delay |-> Some(IF is_delayed THEN delay_minutes ELSE 0)]

GenerateMockFlightData(airport_code, t) ==
    [n \in 1..MockCount |-> MockRecord(airport_code, t, n - 1)]

(* fetch_real_time_flight_data, lines 21-42: always the mock generator.    *)
FetchRealTimeFlightData(airport_code, t) == GenerateMockFlightData(airport_code, t)

(* The airports simulate_data_collection asks for, line 208.               *)
MockAirportCodes == {"FRA", "MUC", "BER", "HAM", "DUS"}

(* generate_mock_flight_data(airport_code) is called at the current        *)
(* instant; mock keeps every call with what it returned.                   *)
GenerateMockFlightDataCall ==
    /\ Quiescent
    /\ Len(mock) < MaxMockCalls
    /\ \E airport_code \in MockAirportCodes :
         mock' = Append(mock, [airport_code |-> airport_code, at |-> now,
                               flights |-> GenerateMockFlightData(airport_code, now)])
    /\ last' = Returned("generate_mock_flight_data", {})
    /\ UNCHANGED <<prev, derived, DELAY_THRESHOLD_MINUTES, now, refvars, dbvars, pfd, scan, sched,
                   report>>

---------------------------------------------------------------------------
(* DelayMonitor, delay_monitor.py.                                         *)

(* n / d rounded to the nearest integer, ties to even, for n >= 0, d > 0:  *)
(* round(x, 2) of lines 105-111 on a value held in hundredths.             *)
RoundHalfEven(n, d) ==
    LET q == n \div d
        r == n % d
    IN IF 2 * r < d THEN q
       ELSE IF 2 * r > d THEN q + 1
       ELSE IF q % 2 = 0 THEN q ELSE q + 1

(* round(n / d, 2), in hundredths.                                         *)
Round2(n, d) == RoundHalfEven(100 * n, d)

RECURSIVE SumOver(_, _)
SumOver(f, set) ==
    IF set = {} THEN 0
    ELSE LET x == CHOOSE x \in set : TRUE
         IN f[x] + SumOver(f, set \ {x})

(* flight.flight_status.delay_minutes of a flight the join returned.       *)
DelayOf(S, fid) ==
    S[CHOOSE j \in StatusRowsOf(S, fid) : \A k \in StatusRowsOf(S, fid) : j <= k].delay_minutes

(* flight.airline.name                                                     *)
AirlineName(f) == (CHOOSE a \in airlines : a.id = f.airline_id).name

(* Lines 61-64: the previous calendar day, first to last instant.          *)
YesterdayStart(t) == (DateOf(t) - 1) * MinutesPerDay
YesterdayEnd(t) == YesterdayStart(t) + MinutesPerDay - 1

(* A variant that trusts the is_delayed flag alone.                        *)
ReportDelayedFlightsByFlag(F, S, t) ==
    {i \in DOMAIN F : \E j \in DOMAIN S :
        /\ S[j].flight_id = i
        /\ S[j].is_delayed = TRUE
        /\ F[i].scheduled_departure >= YesterdayStart(t)
        /\ F[i].scheduled_departure <= YesterdayEnd(t)}

(* A variant without the upper end of the date range.                      *)
ReportDelayedFlightsOpenEnd(F, S, t) ==
    {i \in DOMAIN F : \E j \in DOMAIN S :
        /\ S[j].flight_id = i
        /\ S[j].is_delayed = TRUE
        /\ S[j].delay_minutes >= DELAY_THRESHOLD_MINUTES
        /\ F[i].scheduled_departure >= YesterdayStart(t)}

(* Lines 67-72: the delayed flights of the previous day.                   *)
ReportDelayedFlights(F, S, t) ==
    {i \in DOMAIN F : \E j \in DOMAIN S :
        /\ S[j].flight_id = i
        /\ S[j].is_delayed = TRUE
        /\ S[j].delay_minutes >= DELAY_THRESHOLD_MINUTES
        /\ F[i].scheduled_departure >= YesterdayStart(t)
        /\ F[i].scheduled_departure <= YesterdayEnd(t)}

(* Lines 75-78: all flights of the previous day.                           *)
ReportFlights(F, t) ==
    {i \in DOMAIN F : /\ F[i].scheduled_departure >= YesterdayStart(t)
                      /\ F[i].scheduled_departure <= YesterdayEnd(t)}

(* Lines 80-115: the report.  Percentages and averages are in hundredths.  *)
DailyReport(F, S, t) ==
    LET delayed_flights == ReportDelayedFlights(F, S, t)
        total_flights == Cardinality(ReportFlights(F, t))
        total_delayed == Cardinality(delayed_flights)
        delays == [i \in delayed_flights |-> DelayOf(S, i)]
        names == {AirlineName(F[i]) : i \in delayed_flights}
        of(name) == {i \in delayed_flights : AirlineName(F[i]) = name}
    IN [date |-> DateOf(t) - 1,
        total_flights |-> total_flights,
        delayed_flights |-> total_delayed,
        delay_percentage |-> IF total_flights > 0
                             THEN Round2(total_delayed * 100, total_flights) ELSE 0,
        average_delay_minutes |-> IF total_delayed > 0
                                  THEN Round2(SumOver(delays, delayed_flights), total_delayed)
                                  ELSE 0,
        airlines |-> {[name |-> nm,
                       delayed_flights |-> Cardinality(of(nm)),
                       average_delay |-> Round2(SumOver(delays, of(nm)), Cardinality(of(nm)))] :
                      nm \in names}]

NoReport == [date |-> 0, total_flights |-> 0, delayed_flights |-> 0,
             delay_percentage |-> 0, average_delay_minutes |-> 0, airlines |-> {}]

(* identify_claim_eligible_flights, lines 128-146.                         *)
IdentifyClaimEligibleFlights(F, S, t) ==
    {i \in DOMAIN F : \E j \in DOMAIN S :
        /\ S[j].flight_id = i
        /\ S[j].is_delayed = TRUE
        /\ S[j].delay_minutes >= DELAY_THRESHOLD_MINUTES
        /\ F[i].scheduled_departure >= t - ClaimWindowDays * MinutesPerDay
        /\ F[i].status = "landed"}

(* check_all_airports, lines 32-50.  The airports come in the order the    *)
(* database returns them.  fault: the query of line 39 raises.             *)
Orderings(set) ==
    {q \in [1..Cardinality(set) -> set] : \A a \in set : \E n \in DOMAIN q : q[n] = a}

CheckAllAirportsBegin(fault) ==
    IF fault
    THEN /\ UNCHANGED scan
         /\ last' = Raised("check_all_airports")
    ELSE /\ \E order \in Orderings({a.iata_code : a \in airports}) :
              scan' = [pc |-> "running", todo |-> order, visited |-> <<>>]
         /\ last' = Calling("check_all_airports")

(* process_flight_data came back to line 48 with an exception: the loop of *)
(* lines 41-48 has no handler, so it leaves check_all_airports and, in the *)
(* monitoring loop, run_pending().                                         *)
Propagating == last.op = "process_flight_data" /\ last.raised

(* Lines 41-48 for the next airport: fetch, then call process_flight_data. *)
ScanFetch ==
    /\ scan.pc = "running"
    /\ pfd.pc = "idle"
    /\ scan.todo # <<>>
    /\ IF Propagating
       THEN /\ scan' = [scan EXCEPT !.pc = "idle"]
            /\ sched' = [sched EXCEPT !.pc = "crashed", !.failures = @ + 1]
            /\ last' = Raised("check_all_airports")
            /\ UNCHANGED pfd
       ELSE /\ pfd' = [PfdIdle EXCEPT !.pc = "running", !.src = "scan",
                          !.batch = FetchRealTimeFlightData(Head(scan.todo), now)]
            /\ scan' = [scan EXCEPT !.todo = Tail(@),
                                    !.visited = Append(@, Head(scan.todo))]
            /\ UNCHANGED <<sched, last>>
    /\ UNCHANGED <<mock, prev, derived, DELAY_THRESHOLD_MINUTES, now, refvars, dbvars, report>>

(* The next record of the fetched batch.                                   *)
ScanProcessRecord ==
    /\ pfd.src = "scan"
    /\ pfd.k < Len(pfd.batch)
    /\ \E fault \in BOOLEAN : LoopBody(pfd.batch[pfd.k + 1], fault)

(* The fetched batch is exhausted.                                         *)
ScanBatchReturn ==
    /\ pfd.pc = "running"
    /\ pfd.src = "scan"
    /\ pfd.k = Len(pfd.batch)
    /\ pfd' = PfdIdle
    /\ last' = Returned("process_flight_data", {})
    /\ UNCHANGED <<mock, prev, derived, DELAY_THRESHOLD_MINUTES, now, refvars, dbvars, scan, sched, report>>

---------------------------------------------------------------------------
(* start_monitoring_schedule, lines 148-164, on the `schedule` library:    *)
(* run_pending() runs the due jobs in the order of their next_run and      *)
(* lets a job's exception through; a job that ran is scheduled again.      *)
TickMinutes == 1          \* time.sleep(60)
HourMinutes == 60         \* schedule.every(1).hours
ReportAt == 0             \* .day.at("00:00"), minute of the day
ClaimsAt == 60            \* .day.at("01:00"), minute of the day

(* The next instant after t whose time of day is minute m.                 *)
NextAt(t, m) ==
    IF DateOf(t) * MinutesPerDay + m > t
    THEN DateOf(t) * MinutesPerDay + m
    ELSE (DateOf(t) + 1) * MinutesPerDay + m

(* Lines 153-159: the three jobs are registered, the loop starts.          *)
StartMonitoringSchedule ==
    /\ Quiescent
    /\ sched' = [pc |-> "run_pending", ticks |-> 0,
                 next_scan |-> now + HourMinutes,
                 next_report |-> NextAt(now, ReportAt),
                 next_claims |-> NextAt(now, ClaimsAt),
                 failures |-> 0, jobs_run |-> 0]
    /\ last' = Calling("start_monitoring_schedule")
    /\ UNCHANGED <<mock, prev, derived, DELAY_THRESHOLD_MINUTES, now, refvars, dbvars, pfd, scan, report>>

(* The job run_pending() runs next: the due one with the least next_run,   *)
(* in registration order among equals; "none" when nothing is due.         *)
DueJob ==
    LET due == {j \in {"scan", "report", "claims"} :
                  CASE j = "scan" -> sched.next_scan <= now
                    [] j = "report" -> sched.next_report <= now
                    [] j = "claims" -> sched.next_claims <= now}
        at(j) == CASE j = "scan" -> sched.next_scan
                   [] j = "report" -> sched.next_report
                   [] j = "claims" -> sched.next_claims
        rank(j) == CASE j = "scan" -> 1 [] j = "report" -> 2 [] j = "claims" -> 3
    IN IF due = {} THEN "none"
       ELSE CHOOSE j \in due : \A o \in due :
              at(j) < at(o) \/ (at(j) = at(o) /\ rank(j) <= rank(o))

(* What the loop of lines 162-164 does when a job body raises: nothing     *)
(* catches it, so it leaves run_pending() and the while loop.              *)
JobRaised == [sched EXCEPT !.pc = "crashed", !.failures = @ + 1]

(* The hourly job starts.                                                  *)
RunScanJob ==
    /\ sched.pc = "run_pending"
    /\ DueJob = "scan"
    /\ \E fault \in BOOLEAN :
         /\ CheckAllAirportsBegin(fault)
         /\ sched' = IF fault THEN JobRaised ELSE [sched EXCEPT !.pc = "in_scan"]
    /\ UNCHANGED <<mock, prev, derived, DELAY_THRESHOLD_MINUTES, now, refvars, dbvars, pfd, report>>

(* Line 50: the hourly job returns and is scheduled again.                 *)
ScanJobReturn ==
    /\ sched.pc = "in_scan"
    /\ scan.pc = "running"
    /\ scan.todo = <<>>
    /\ pfd.pc = "idle"
    /\ scan' = [scan EXCEPT !.pc = "idle"]
    /\ IF Propagating
       THEN /\ sched' = JobRaised
            /\ last' = Raised("check_all_airports")
       ELSE /\ sched' = [sched EXCEPT !.pc = "run_pending",
                                      !.next_scan = now + HourMinutes,
                                      !.jobs_run = @ + 1]
            /\ last' = Returned("check_all_airports", {})
    /\ UNCHANGED <<mock, prev, derived, DELAY_THRESHOLD_MINUTES, now, refvars, dbvars, pfd, report>>

(* generate_daily_report, lines 52-126.  fault: a query or the writing of  *)
(* the report file raises.                                                 *)
GenerateDailyReport(fault) ==
    IF fault
    THEN /\ UNCHANGED report
         /\ last' = Raised("generate_daily_report")
    ELSE /\ report' = DailyReport(flights, flight_status, now)
         /\ last' = Returned("generate_daily_report", {})

(* The 00:00 job.                                                          *)
RunReportJob ==
    /\ sched.pc = "run_pending"
    /\ DueJob = "report"
    /\ \E fault \in BOOLEAN :
         /\ GenerateDailyReport(fault)
         /\ sched' = IF fault THEN JobRaised
                     ELSE [sched EXCEPT !.next_report = NextAt(now, ReportAt),
                                        !.jobs_run = @ + 1]
    /\ UNCHANGED <<mock, prev, derived, DELAY_THRESHOLD_MINUTES, now, refvars, dbvars, pfd, scan>>

(* The 01:00 job: identify_claim_eligible_flights.  fault: the query       *)
(* raises.                                                                 *)
RunClaimsJob ==
    /\ sched.pc = "run_pending"
    /\ DueJob = "claims"
    /\ \E fault \in BOOLEAN :
         /\ last' = IF fault THEN Raised("identify_claim_eligible_flights")
                    ELSE Returned("identify_claim_eligible_flights",
                                  IdentifyClaimEligibleFlights(flights, flight_status, now))
         /\ sched' = IF fault THEN JobRaised
                     ELSE [sched EXCEPT !.next_claims = NextAt(now, ClaimsAt),
                                        !.jobs_run = @ + 1]
    /\ UNCHANGED <<mock, prev, derived, DELAY_THRESHOLD_MINUTES, now, refvars, dbvars, pfd, scan, report>>

(* Line 164: nothing more is due, the loop sleeps a minute.                *)
SleepTick ==
    /\ sched.pc = "run_pending"
    /\ DueJob = "none"
    /\ sched.ticks < MaxTicks
    /\ now' = now + TickMinutes
    /\ sched' = [sched EXCEPT !.ticks = @ + 1]
    /\ UNCHANGED <<mock, prev, derived, DELAY_THRESHOLD_MINUTES, refvars, dbvars, pfd, scan, last, report>>

---------------------------------------------------------------------------
(* The commands of the command line, one at a time.                        *)

CreateFlightCall ==
    \E fn \in FlightNumbers, airline_id \in {Lufthansa.id, 99}, sd \in SchedTimes,
       fault \in 0..2 :
        CreateFlight(fn, airline_id, FRA.id, LHR.id, sd, sd + FlightMinutes,
                     "scheduled", fault)

UpdateFlightStatusCall ==
    \E fid \in 1..MaxFlights,
       st \in {None} \cup {Some(x) : x \in Statuses},
       delay_minutes \in {None, Some(0)} \cup {Some(d) : d \in Delays},
       fault \in BOOLEAN :
        UpdateFlightStatus(fid, None, None, st, delay_minutes, fault)

(* update_flight_status called with actual times only.                     *)
UpdateActualTimesCall ==
    \E fid \in 1..MaxFlights, fault \in BOOLEAN :
        \E actual_departure \in
              IF fid \in DOMAIN flights
              THEN {None, Some(flights[fid].scheduled_departure + 150)} ELSE {None},
           actual_arrival \in
              IF fid \in DOMAIN flights
              THEN {None, Some(flights[fid].scheduled_arrival + 10),
                    Some(flights[fid].scheduled_arrival + 150)}
              ELSE {None} :
            UpdateFlightStatus(fid, actual_departure, actual_arrival, None, None, fault)

(* The next record of a batch whose records differ in their actual times.  *)
ProcessRecordActuals ==
    /\ pfd.src = "cli"
    /\ \E fi \in ActualsRecords, fault \in BOOLEAN : LoopBody(fi, fault)

QueryMinutes == {0, DefaultThreshold, 151}

GetDelayedFlightsCall ==
    /\ Quiescent
    /\ \E m \in QueryMinutes :
         last' = Returned("get_delayed_flights", GetDelayedFlights(flights, flight_status, m))
    /\ pfd' = PfdIdle
    /\ UNCHANGED <<mock, prev, derived, DELAY_THRESHOLD_MINUTES, now, refvars, dbvars, scan, sched, report>>

QueryAirportCodes == {"FRA", "LHR", "MUC", "XXX"}
QueryFlightNumbers == {"LH1000", "LH9999"}

GetFlightsByAirportCall(airport_code) ==
    /\ Quiescent
    /\ last' = Returned("get_flights_by_airport", GetFlightsByAirport(flights, airport_code))
    /\ pfd' = PfdIdle
    /\ UNCHANGED <<mock, prev, derived, DELAY_THRESHOLD_MINUTES, now, refvars, dbvars, scan, sched, report>>

GetFlightByNumberCall ==
    /\ Quiescent
    /\ \E flight_number \in QueryFlightNumbers :
         last' \in GetFlightByNumber(flights, flight_number)
    /\ pfd' = PfdIdle
    /\ UNCHANGED <<mock, prev, derived, DELAY_THRESHOLD_MINUTES, now, refvars, dbvars, scan, sched, report>>

(* create_flight between any two of the airports, for the previous day.    *)
CreateFlightRouteCall ==
    \E dep \in airports, arr \in airports :
        /\ dep # arr
        /\ CreateFlight("LH1000", Lufthansa.id, dep.id, arr.id, now0 - MinutesPerDay,
                        now0 - MinutesPerDay + FlightMinutes, "scheduled", 0)

(* update_flight_status(flight_id, status="landed", delay_minutes=150).    *)
UpdateLandedDelayedCall ==
    \E fid \in 1..MaxFlights :
        UpdateFlightStatus(fid, None, None, Some("landed"), Some(MockLongDelay), FALSE)

GetFlightsForClaimsCall ==
    /\ Quiescent
    /\ last' = Returned("get_flights_for_claims",
                        GetFlightsForClaims(flights, flight_status, now))
    /\ pfd' = PfdIdle
    /\ UNCHANGED <<mock, prev, derived, DELAY_THRESHOLD_MINUTES, now, refvars, dbvars, scan, sched, report>>

IdentifyClaimEligibleFlightsCall ==
    /\ Quiescent
    /\ last' = Returned("identify_claim_eligible_flights",
                        IdentifyClaimEligibleFlights(flights, flight_status, now))
    /\ pfd' = PfdIdle
    /\ UNCHANGED <<mock, prev, derived, DELAY_THRESHOLD_MINUTES, now, refvars, dbvars, scan, sched, report>>

GenerateDailyReportCall ==
    /\ Quiescent
    /\ \E fault \in BOOLEAN : GenerateDailyReport(fault)
    /\ pfd' = PfdIdle
    /\ UNCHANGED <<mock, prev, derived, DELAY_THRESHOLD_MINUTES, now, refvars, dbvars, scan, sched>>

---------------------------------------------------------------------------
(* The database after setup, before any flight is known.                   *)
Init ==
    /\ DELAY_THRESHOLD_MINUTES \in Thresholds
    /\ now = now0
    /\ airports = {FRA, LHR}
    /\ airlines = {Lufthansa}
    /\ flights = <<>>
    /\ flight_status = <<>>
    /\ pfd = PfdIdle
    /\ scan = ScanIdle
    /\ sched = SchedOff
    /\ last = Returned("none", {})
    /\ report = NoReport
    /\ mock = <<>>
    /\ prev = NoPrev
    /\ derived = NoDerived

Next ==
    \/ ProcessFlightDataCall
    \/ ProcessRecord
    \/ ProcessFlightDataReturn
    \/ CreateFlightCall
    \/ UpdateFlightStatusCall

Spec == Init /\ [][Next]_vars

(* Ingestion next to create_flight only.                                   *)
NextIngest ==
    \/ ProcessFlightDataCall
    \/ ProcessRecord
    \/ ProcessFlightDataReturn
    \/ CreateFlightCall

SpecIngest == Init /\ [][NextIngest]_vars

(* Ingestion of whole batches, one call after another.                     *)
NextBatch ==
    \/ ProcessBatchCall
    \/ BatchProcessRecord
    \/ BatchReturn
    \/ ClockTick

SpecBatch == Init /\ [][NextBatch]_vars

(* The Query Service on a database with three airports and flights         *)
(* between them.                                                           *)
MUC == [id |-> 3, iata_code |-> "MUC"]

InitRead ==
    /\ DELAY_THRESHOLD_MINUTES \in Thresholds
    /\ now = now0
    /\ airports = {FRA, LHR, MUC}
    /\ airlines = {Lufthansa}
    /\ flights = <<>>
    /\ flight_status = <<>>
    /\ pfd = PfdIdle
    /\ scan = ScanIdle
    /\ sched = SchedOff
    /\ last = Returned("none", {})
    /\ report = NoReport
    /\ mock = <<>>
    /\ prev = NoPrev
    /\ derived = NoDerived

NextRead ==
    \/ CreateFlightRouteCall
    \/ UpdateLandedDelayedCall
    \/ \E airport_code \in QueryAirportCodes : GetFlightsByAirportCall(airport_code)
    \/ GetFlightByNumberCall
    \/ GetDelayedFlightsCall
    \/ GetFlightsForClaimsCall

SpecRead == InitRead /\ [][NextRead]_vars

(* The derived delay properties read on one Flight after another.          *)
NextDerived == ReadDelayProperties

SpecDerived == Init /\ [][NextDerived]_vars

(* The mock generator called again and again while time passes.            *)
NextMock ==
    \/ GenerateMockFlightDataCall
    \/ ClockTick

SpecMock == Init /\ [][NextMock]_vars

(* The same as Next, with the read-only commands.                          *)
NextQuery ==
    \/ Next
    \/ GetDelayedFlightsCall
    \/ GetFlightsForClaimsCall
    \/ IdentifyClaimEligibleFlightsCall

SpecQuery == Init /\ [][NextQuery]_vars

(* Ingestion of records that differ in their actual times.                 *)
NextActuals ==
    \/ ProcessFlightDataCall
    \/ ProcessRecordActuals
    \/ ProcessFlightDataReturn
    \/ UpdateActualTimesCall

SpecActuals == Init /\ [][NextActuals]_vars

(* The instants at which the monitor command is started: one minute or an  *)
(* hour and a minute before midnight.                                      *)
SchedStarts == {200 * MinutesPerDay - 1, 200 * MinutesPerDay - 1 - HourMinutes}

(* The monitor command: the scheduler loop on a database without flights.  *)
InitSched ==
    /\ DELAY_THRESHOLD_MINUTES \in Thresholds
    /\ now \in SchedStarts
    /\ airports = {FRA, LHR}
    /\ airlines = {Lufthansa, Eurowings}
    /\ flights = <<>>
    /\ flight_status = <<>>
    /\ pfd = PfdIdle
    /\ scan = ScanIdle
    /\ sched = SchedOff
    /\ last = Returned("none", {})
    /\ report = NoReport
    /\ mock = <<>>
    /\ prev = NoPrev
    /\ derived = NoDerived

NextSched ==
    \/ StartMonitoringSchedule
    \/ SleepTick
    \/ RunScanJob
    \/ ScanFetch
    \/ ScanProcessRecord
    \/ ScanBatchReturn
    \/ ScanJobReturn
    \/ RunReportJob
    \/ RunClaimsJob

SpecSched == InitSched /\ [][NextSched]_vars

(* The report command on a database that earlier commands filled: up to    *)
(* MaxReportFlights flights scheduled around the end of the previous day,  *)
(* each with the status row create_flight, update_flight_status or         *)
(* process_flight_data leaves for its delay; or the ten flights of the     *)
(* documented scenario, three of them delayed by 130, 200 and 150 minutes. *)
ReportDelays == {0, 130, 200}
ReportKinds ==
    {[sd |-> sd, airline |-> al.id, delay |-> d, flag |-> fl] :
        sd \in {DateOf(now0) * MinutesPerDay - 1, DateOf(now0) * MinutesPerDay},
        al \in {Lufthansa, Eurowings}, d \in ReportDelays, fl \in BOOLEAN}

ReportFlightRow(kind) ==
    [flight_number |-> "LH1000", airline_id |-> kind.airline,
     departure_airport_id |-> FRA.id, arrival_airport_id |-> LHR.id,
     scheduled_departure |-> kind.sd, scheduled_arrival |-> kind.sd + FlightMinutes,
     actual_departure |-> None, actual_arrival |-> None, status |-> "landed"]

ReportStatusRow(kind, fid) ==
    [flight_id |-> fid, delay_minutes |-> kind.delay, is_delayed |-> kind.flag,
     last_updated |-> Some(now0)]

ScenarioDelays == <<130, 200, 150, 0, 0, 0, 0, 0, 0, 0>>
ScenarioKinds ==
    [i \in DOMAIN ScenarioDelays |->
        [sd |-> now0 - MinutesPerDay, airline |-> Lufthansa.id,
         delay |-> ScenarioDelays[i],
         flag |-> IngestIsDelayed(ScenarioDelays[i])]]

InitReport ==
    /\ DELAY_THRESHOLD_MINUTES \in Thresholds
    /\ now = now0
    /\ airports = {FRA, LHR}
    /\ airlines = {Lufthansa, Eurowings}
    /\ \E n \in 0..MaxReportFlights :
         \E kinds \in [1..n -> ReportKinds] \cup {ScenarioKinds} :
            /\ \A i \in DOMAIN kinds :
                 kinds[i].flag \in {IngestIsDelayed(kinds[i].delay),
                                    UpdateIsDelayed(kinds[i].delay)}
            /\ flights = [i \in DOMAIN kinds |-> ReportFlightRow(kinds[i])]
            /\ flight_status = [i \in DOMAIN kinds |-> ReportStatusRow(kinds[i], i)]
    /\ pfd = PfdIdle
    /\ scan = ScanIdle
    /\ sched = SchedOff
    /\ last = Returned("none", {})
    /\ report = NoReport
    /\ mock = <<>>
    /\ prev = NoPrev
    /\ derived = NoDerived

NextReport == GenerateDailyReportCall

SpecReport == InitReport /\ [][NextReport]_vars

---------------------------------------------------------------------------
(* Properties.                                                             *)

(* C1: every FlightStatus row has is_delayed equal to                      *)
(* (delay_minutes >= DELAY_THRESHOLD_MINUTES), whatever threshold is       *)
(* configured.  process_flight_data compares with the literal 120, so the  *)
(* rows it writes under another threshold break it.                        *)
C1_IsDelayedMatchesThreshold ==
    \A j \in DOMAIN flight_status :
        flight_status[j].is_delayed =
            (flight_status[j].delay_minutes >= DELAY_THRESHOLD_MINUTES)

(* C2: ingestion keeps one Flight row per (flight_number,                  *)
(* scheduled_departure); a committed record with an actual arrival (or     *)
(* departure) writes it, one without leaves the stored value; and no step  *)
(* sets a stored actual time back to null.                                 *)
C2_ActualTimesLatestNonNull ==
    [][/\ \A i \in DOMAIN flights :
            /\ i \in DOMAIN flights'
            /\ IsSome(flights[i].actual_departure) => IsSome(flights'[i].actual_departure)
            /\ IsSome(flights[i].actual_arrival) => IsSome(flights'[i].actual_arrival)
       /\ \A fi \in ActualsRecords :
            (pfd.pc = "running" /\ LoopBody(fi, FALSE)) =>
               LET rows == {i \in DOMAIN flights' :
                              /\ flights'[i].flight_number = fi.flight_iata
                              /\ flights'[i].scheduled_departure = fi.departure_scheduled}
                   before(i) == IF i \in DOMAIN flights THEN flights[i]
                                ELSE [actual_departure |-> None, actual_arrival |-> None]
               IN /\ Cardinality(rows) = 1
                  /\ \A i \in rows :
                       /\ flights'[i].actual_arrival =
                            IF fi.arrival_actual # None THEN fi.arrival_actual
                            ELSE before(i).actual_arrival
                       /\ flights'[i].actual_departure =
                            IF fi.departure_actual # None THEN fi.departure_actual
                            ELSE before(i).actual_departure]_vars

(* C2 witness: a flight whose later arrival value is stored and survived a *)
(* committed record without actual times (status in-air).                  *)
C2_Witness ==
    /\ pfd.rec = "committed"
    /\ \E i \in DOMAIN flights :
         /\ flights[i].actual_arrival = Some(flights[i].scheduled_arrival + 150)
         /\ flights[i].actual_departure # None
         /\ flights[i].status = "in-air"

(* C3: the claims-eligibility queries return only flights whose status is  *)
(* landed and that are scheduled no more than 90 days before the           *)
(* evaluation instant.  get_flights_for_claims has no status filter.       *)
C3_ClaimsOnlyLandedWithinWindow ==
    last.op \in {"get_flights_for_claims", "identify_claim_eligible_flights"} =>
        \A i \in last.ids :
            /\ flights[i].status = "landed"
            /\ flights[i].scheduled_departure >= now - ClaimWindowDays * MinutesPerDay

(* The references of a record, looked up without the model's helpers.      *)
RefsKnown(fi) ==
    /\ fi.airline_iata \in {a.iata_code : a \in airlines}
    /\ fi.departure_iata \in {a.iata_code : a \in airports}
    /\ fi.arrival_iata \in {a.iata_code : a \in airports}

C5_FailureRollsBackAndStops ==
    [][\A fi \in Records :
         /\ (pfd.pc = "running" /\ LoopBody(fi, TRUE)) =>
               /\ dbvars' = dbvars
               /\ pfd'.pc = "idle"
               /\ pfd'.rec = "failed"
               /\ last'.op = "process_flight_data"
               /\ ~last'.raised
         /\ (pfd.pc = "running" /\ LoopBody(fi, FALSE) /\ RefsKnown(fi)) =>
               /\ pfd'.pc = "running"
               /\ \E i \in DOMAIN flights' :
                    /\ flights'[i].flight_number = fi.flight_iata
                    /\ flights'[i].scheduled_departure = fi.departure_scheduled
                    /\ flights'[i].status = fi.status
                    /\ \E j \in DOMAIN flight_status' : flight_status'[j].flight_id = i]_vars

(* C5 witness: a call that stopped at a failing record after an earlier    *)
(* record was committed, and returned.                                     *)
C5_Witness ==
    /\ pfd.pc = "idle"
    /\ pfd.rec = "failed"
    /\ last = Returned("process_flight_data", {})
    /\ Len(flights) >= 1
    /\ Len(flight_status) = Len(flights)

(* C6: a job body that raises does not end the monitoring loop.  Nothing   *)
(* between the job and the while loop catches the exception.               *)
C6_LoopSurvivesJobFailure ==
    sched.failures > 0 => sched.pc \in {"run_pending", "in_scan"}

(* C7: a scan takes the airports one after another, fetching and handing   *)
(* over the batch of each; a batch that fails leaves the scan where it is, *)
(* and the scan ends only when every airport was fetched and processed.    *)
C7_ScanVisitsEveryAirport ==
    [][scan.pc = "running" =>
         LET codes == {a.iata_code : a \in airports}
         IN /\ Range(scan.visited) \cup Range(scan.todo) = codes
            /\ Len(scan.visited) + Len(scan.todo) = Cardinality(codes)
            /\ (pfd.pc = "running" /\ pfd'.rec = "failed") =>
                  scan' = scan /\ sched' = sched /\ ~last'.raised
            /\ (scan'.pc = "running" /\ scan'.todo # scan.todo) =>
                  /\ scan'.todo = Tail(scan.todo)
                  /\ scan'.visited = Append(scan.visited, Head(scan.todo))
                  /\ pfd'.pc = "running"
                  /\ Len(pfd'.batch) = MockCount
                  /\ \A n \in DOMAIN pfd'.batch :
                       pfd'.batch[n].departure_iata = Head(scan.todo)
            /\ scan'.pc # "running" =>
                  /\ scan.todo = <<>>
                  /\ Range(scan'.visited) = codes
                  /\ sched'.pc = "run_pending"
                  /\ last' = Returned("check_all_airports", {})]_vars

(* C7 witness: a scan that returned after visiting both airports although  *)
(* a batch failed on the way (a complete scan leaves two flights).         *)
C7_Witness ==
    /\ last = Returned("check_all_airports", {})
    /\ Len(scan.visited) = 2
    /\ pfd.rec = "failed"
    /\ Len(flights) = 1

(* C8: for m1 <= m2 the flights delayed by at least m2 are among those     *)
(* delayed by at least m1, and every flight returned for m has a status    *)
(* row with is_delayed true and delay_minutes >= m.                        *)
C8Minutes == QueryMinutes \cup Delays \cup Thresholds
C8_DelayedFlightsMonotone ==
    /\ \A m1, m2 \in C8Minutes :
         m1 <= m2 => GetDelayedFlights(flights, flight_status, m2)
                       \subseteq GetDelayedFlights(flights, flight_status, m1)
    /\ \A m \in C8Minutes :
         \A i \in GetDelayedFlights(flights, flight_status, m) :
            \E j \in DOMAIN flight_status :
               /\ flight_status[j].flight_id = i
               /\ flight_status[j].is_delayed
               /\ flight_status[j].delay_minutes >= m
    /\ last.op = "get_delayed_flights" =>
         \A i \in last.ids :
            \E j \in DOMAIN flight_status :
               flight_status[j].flight_id = i /\ flight_status[j].is_delayed

(* C8 witness: a query returned two delayed flights, and a larger minimum  *)
(* returns none of them.                                                   *)
C8_Witness ==
    /\ last.op = "get_delayed_flights"
    /\ Cardinality(last.ids) = 2
    /\ GetDelayedFlights(flights, flight_status, 151) = {}
    /\ GetDelayedFlights(flights, flight_status, DefaultThreshold) = last.ids

(* C9: no two Flight rows share (flight_number, scheduled_departure).      *)
(* create_flight inserts without looking and the table has no such         *)
(* constraint.                                                             *)
C9_FlightKeyUnique ==
    \A i, j \in DOMAIN flights :
        (/\ flights[i].flight_number = flights[j].flight_number
         /\ flights[i].scheduled_departure = flights[j].scheduled_departure) => i = j

(* The flights of the previous calendar day, those of them that count as   *)
(* delayed, and the sum of their delays, read off the tables row by row.   *)
C10Yesterday == {i \in DOMAIN flights :
                   DateOf(flights[i].scheduled_departure) = DateOf(now) - 1}
C10Delayed == {i \in C10Yesterday : \E j \in DOMAIN flight_status :
                 /\ flight_status[j].flight_id = i
                 /\ flight_status[j].is_delayed
                 /\ flight_status[j].delay_minutes >= DELAY_THRESHOLD_MINUTES}
RECURSIVE C10DelaySum(_)
C10DelaySum(n) ==
    IF n = 0 THEN 0
    ELSE C10DelaySum(n - 1) +
         (IF flight_status[n].flight_id \in C10Delayed
          THEN flight_status[n].delay_minutes ELSE 0)
C10ReportWritten == last = Returned("generate_daily_report", {})
C10Abs(x) == IF x < 0 THEN 0 - x ELSE x

C11SameStatus(a, b) ==
    /\ a.flight_id = b.flight_id
    /\ a.is_delayed = b.is_delayed
    /\ a.delay_minutes = b.delay_minutes

(* C11: process_flight_data called a second time with the same batch, on   *)
(* the database the first call left, creates no Flight and no FlightStatus *)
(* row and leaves every field but last_updated as the first call left it.  *)
C11_IngestionIdempotent ==
    prev.twice =>
        /\ prev.flights = prev.once.flights
        /\ Len(prev.flight_status) = Len(prev.once.flight_status)
        /\ \A j \in DOMAIN prev.flight_status :
              C11SameStatus(prev.flight_status[j], prev.once.flight_status[j])

(* C11 witness: a batch of two records was ingested twice, the second time *)
(* a minute later, which shows in last_updated only.                       *)
C11_Witness ==
    /\ prev.twice
    /\ Len(prev.batch) = 2
    /\ Len(prev.flights) = 2
    /\ \E j \in DOMAIN prev.flight_status :
          prev.flight_status[j].last_updated # prev.once.flight_status[j].last_updated

(* C18: when a record is ingested, the Flight of its key has the record's  *)
(* status, and its FlightStatus has the record's delay (0 without one) and *)
(* is_delayed according to the threshold invariant.                        *)
C18_LastRecordWins ==
    [][(pfd.pc = "running" /\ pfd.src = "batch" /\ pfd'.rec = "committed"
        /\ pfd'.k = pfd.k + 1) =>
          LET fi == pfd.batch[pfd.k + 1]
              delay == IF IsSome(fi.delay) THEN Val(fi.delay) ELSE 0
          IN \E i \in DOMAIN flights' :
               /\ flights'[i].flight_number = fi.flight_iata
               /\ flights'[i].scheduled_departure = fi.departure_scheduled
               /\ flights'[i].status = fi.status
               /\ \E j \in DOMAIN flight_status' :
                    /\ flight_status'[j].flight_id = i
                    /\ flight_status'[j].delay_minutes = delay
                    /\ flight_status'[j].is_delayed
                         = (delay >= DELAY_THRESHOLD_MINUTES)]_vars

C15_MockDelays ==
    \A c \in DOMAIN mock : \A n \in DOMAIN mock[c].flights :
        LET r == mock[c].flights[n]
            d == IF (n - 1) % 3 = 0 THEN 150 ELSE 10
        IN /\ r.delay = Some(d)
           /\ IsSome(r.departure_actual)
                 => Val(r.departure_actual) = r.departure_scheduled + d
           /\ IsSome(r.arrival_actual)
                 => Val(r.arrival_actual) = r.arrival_scheduled + d

(* C19: the status of a generated record follows from the instant of the   *)
(* call and the record's windows alone: scheduled before the scheduled     *)
(* departure, boarding until the departure put off by the delay, in-air    *)
(* until the arrival put off by the delay, landed from then on.            *)
C19_MockStatusByWindows ==
    \A c \in DOMAIN mock : \A n \in DOMAIN mock[c].flights :
        LET r == mock[c].flights[n]
            t == mock[c].at
            d == IF (n - 1) % 3 = 0 THEN 150 ELSE 10
        IN /\ r.status = "scheduled" <=> t < r.departure_scheduled
           /\ r.status = "boarding" <=>
                 (r.departure_scheduled <= t /\ t < r.departure_scheduled + d)
           /\ r.status = "in-air" <=>
                 (r.departure_scheduled + d <= t /\ t < r.arrival_scheduled + d)
           /\ r.status = "landed" <=> r.arrival_scheduled + d <= t

(* C19 witness: a generated batch whose first record is boarding and whose *)
(* second is scheduled.                                                    *)
C19_Witness ==
    \E c \in DOMAIN mock :
        /\ mock[c].flights[1].status = "boarding"
        /\ mock[c].flights[2].status = "scheduled"
        /\ mock[c].at = mock[c].flights[1].departure_scheduled

(* C13: get_flights_by_airport(code) returns the flights whose departure   *)
(* or arrival airport is the airport with that IATA code, all of them and  *)
(* no other, and nothing when no airport has the code.                     *)
C13_FlightsByAirportExact ==
    [][\A code \in QueryAirportCodes :
         GetFlightsByAirportCall(code) =>
            /\ last'.ids = {i \in DOMAIN flights :
                              \E a \in airports :
                                 /\ a.iata_code = code
                                 /\ \/ flights[i].departure_airport_id = a.id
                                    \/ flights[i].arrival_airport_id = a.id}
            /\ (\A a \in airports : a.iata_code # code) => last'.ids = {}
            /\ ~last'.raised]_vars

(* C13 witness: the query returned some of the flights and not all.        *)
C13_Witness ==
    /\ last.op = "get_flights_by_airport"
    /\ last.ids # {}
    /\ Cardinality(last.ids) < Len(flights)

(* C14: a query changes no row of any table and does not raise; with       *)
(* nothing to return its result is empty.                                  *)
C14QueryOps == {"get_flights_by_airport", "get_flight_by_number",
                "get_delayed_flights", "get_flights_for_claims"}
C14_QueriesReadOnly ==
    [][(last'.op \in C14QueryOps) =>
          /\ airports' = airports
          /\ airlines' = airlines
          /\ flights' = flights
          /\ flight_status' = flight_status
          /\ ~last'.raised
          /\ last'.ids \subseteq DOMAIN flights
          /\ flights = <<>> => last'.ids = {}]_vars

(* C14 witness: on a database with flights, a query that matched nothing   *)
(* came back empty.                                                        *)
C14_Witness ==
    /\ last.op \in C14QueryOps
    /\ last.ids = {}
    /\ ~last.raised
    /\ Len(flights) = MaxFlights
    /\ Len(flight_status) = MaxFlights

(* C16: every Flight has at most one FlightStatus row and every            *)
(* FlightStatus row belongs to a Flight of the table.                      *)
C16_StatusOneToOne ==
    /\ \A j, k \in DOMAIN flight_status :
          flight_status[j].flight_id = flight_status[k].flight_id => j = k
    /\ \A j \in DOMAIN flight_status : flight_status[j].flight_id \in DOMAIN flights

(* C16 witness: two flights with a status row each, the first flight       *)
(* having got its row after the second (its creation had failed half way). *)
C16_Witness ==
    /\ Len(flights) = 2
    /\ Len(flight_status) = 2
    /\ flight_status[1].flight_id = 2
    /\ flight_status[2].flight_id = 1

C20Holds(delay_minutes, actual, scheduled) ==
    /\ ~IsSome(actual) => delay_minutes = None
    /\ (IsSome(actual) /\ IsSome(scheduled)) =>
          LET diff == Val(actual) - Val(scheduled)
          IN /\ IsSome(delay_minutes)
             /\ Val(delay_minutes) >= 0
             /\ diff <= 0 => Val(delay_minutes) = 0
             /\ diff > 0 => /\ 60 * Val(delay_minutes) <= diff
                            /\ diff < 60 * (Val(delay_minutes) + 1)
C20_DerivedDelays ==
    last.op = "delay_minutes" =>
        /\ C20Holds(derived.departure_delay_minutes, derived.actual_departure,
                    derived.scheduled_departure)
        /\ C20Holds(derived.arrival_delay_minutes, derived.actual_arrival,
                    derived.scheduled_arrival)

(* C20 witness: a Flight that left 59 seconds late and arrived early: 0    *)
(* minutes both.                                                           *)
C20_Witness ==
    /\ last.op = "delay_minutes"
    /\ derived.actual_departure = Some(DerivedScheduled + 59)
    /\ derived.scheduled_departure = Some(DerivedScheduled)
    /\ derived.departure_delay_minutes = Some(0)
    /\ derived.actual_arrival = Some(DerivedScheduled + FlightMinutes * 60 - 121)
    /\ derived.arrival_delay_minutes = Some(0)

(* C21: the simulated adapter never yields a flight that has landed.       *)
(* Every record it hands over is scheduled at or after the instant of the  *)
(* fetch, is scheduled or boarding and has no actual times; so is every    *)
(* stored flight after any number of scans, and                            *)
(* identify_claim_eligible_flights returns nothing.                        *)
C21_SimulatedFlightsNeverLand ==
    /\ \A n \in DOMAIN pfd.batch :
          /\ pfd.batch[n].departure_scheduled >= now
          /\ pfd.batch[n].status \in {"scheduled", "boarding"}
          /\ pfd.batch[n].departure_actual = None
          /\ pfd.batch[n].arrival_actual = None
    /\ \A i \in DOMAIN flights :
          /\ flights[i].status \in {"scheduled", "boarding"}
          /\ flights[i].actual_departure = None
          /\ flights[i].actual_arrival = None
    /\ (last.op = "identify_claim_eligible_flights" /\ ~last.raised) => last.ids = {}

(* C21 witness: after two scans, an hour apart and each with its own       *)
(* flight keys, the claims job found nothing although a stored flight is   *)
(* delayed by the threshold or more.                                       *)
C21_Witness ==
    /\ last = Returned("identify_claim_eligible_flights", {})
    /\ \E i, j \in DOMAIN flights :
          /\ flights[i].flight_number = flights[j].flight_number
          /\ flights[i].status = "boarding"
          /\ flights[j].status = "boarding"
          /\ flights[i].scheduled_departure = flights[j].scheduled_departure + HourMinutes
    /\ \E j \in DOMAIN flight_status :
          /\ flight_status[j].is_delayed
          /\ flight_status[j].delay_minutes >= DELAY_THRESHOLD_MINUTES

(* C22: in every database state, also after a call that failed part-way,   *)
(* every Flight row has a FlightStatus row, so that reading                *)
(* flight.flight_status never yields None.                                 *)
C22_EveryFlightHasStatus ==
    \A i \in DOMAIN flights : StatusRowsOf(flight_status, i) # {}

(* The delayed_flights counts of the report's airline entries.             *)
C23AirlineCounts == [a \in report.airlines |-> a.delayed_flights]

(* C23: every report generate_daily_report returns is consistent in        *)
(* itself: delayed_flights <= total_flights; delay_percentage lies between *)
(* 0 and 100; the airlines' delayed_flights add up to the report's; every  *)
(* listed airline has at least one delayed flight; and                     *)
(* average_delay_minutes is 0 when no flight is delayed and at least       *)
(* DELAY_THRESHOLD_MINUTES otherwise.  Percentage and averages are held in *)
(* hundredths.                                                             *)
C23_ReportConsistent ==
    (last.op = "generate_daily_report" /\ ~last.raised) =>
        /\ report.delayed_flights <= report.total_flights
        /\ report.delay_percentage >= 0
        /\ report.delay_percentage <= 100 * 100
        /\ SumOver(C23AirlineCounts, report.airlines) = report.delayed_flights
        /\ \A a \in report.airlines : a.delayed_flights >= 1
        /\ report.delayed_flights = 0 => report.average_delay_minutes = 0
        /\ report.delayed_flights > 0 =>
              report.average_delay_minutes >= 100 * DELAY_THRESHOLD_MINUTES

(* C23 witness: a report of three flights, two of them delayed, one for    *)
(* each of two airlines, under the higher threshold.                       *)
C23_Witness ==
    /\ last.op = "generate_daily_report" /\ ~last.raised
    /\ DELAY_THRESHOLD_MINUTES > DefaultThreshold
    /\ report.total_flights = 3
    /\ report.delayed_flights = 2
    /\ Cardinality(report.airlines) = 2
    /\ report.average_delay_minutes >= 100 * DELAY_THRESHOLD_MINUTES

====
